---- MODULE Spec2Model ----
(***************************************************************************)
(* A model of src/train/models.py: the autoencoder builders, the sampler,  *)
(* the variational loss and the tunable training driver.                   *)
(*                                                                         *)
(* A builder is straight-line Python.  Each builder is written here as the *)
(* sequence of its statements (one record per source line), and executed   *)
(* one statement at a time over a name environment (env) and a heap of     *)
(* Keras objects (objs): tensors, layers, models.  Reading a name that was *)
(* never bound raises NameError, as in Python.                             *)
(***************************************************************************)
EXTENDS Integers, Sequences, FiniteSets, TLC

VARIABLES
    call,       \* the running call: function name and its arguments
    pc,         \* index of the next statement of the function body
    status,     \* "idle" | "running" | "fitting" | "returned" | "raised"
    env,        \* local names -> heap index (0: unbound)
    objs,       \* the heap of Keras objects created so far
    weights,    \* learnable parameters, by heap index of the owning layer
    stdout,     \* what has been written to standard output
    compiled,   \* what .compile() was invoked on, and with what
    ret,        \* the returned tuple (heap indices)
    error,      \* the exception a "raised" call ended with
    fit,        \* the state of the blocking fit() loop
    updates,    \* caller-side training steps taken after the return
    lossState,  \* an evaluation of the compiled vae_loss on a batch
    sampleState \* an invocation of the sampler and the random source it reads

bvars ==
    <<call, pc, status, env, objs, weights, stdout, compiled, ret, error, fit, updates>>
nvars == <<lossState, sampleState>>
vars == <<bvars, nvars>>

\* ------------------------------------------------------------------ bounds
MaxLatent == 2
MaxWidth == 3
MaxEpochs == 2
MaxUpdates == 2
MaxUnits == 2

\* ------------------------------------------------------- program constants
TuneLatentDim == 2
TuneInputShape == 13
TuneBetaMilli == 1
BatchSize == 8
AdamLrMilli == 1

\* ---------------------------------------------------------------- helpers
Names ==
    {"inputs", "x", "z", "mu", "log_sigma", "latent_inputs", "outputs",
     "encoder", "decoder", "autoencoder", "model", "history"}

VanillaBuilders ==
    {"build_simple_autoencoder", "build_single_layer_autoencoder",
     "build_multiple_layer_autoencoder"}

VariationalBuilders ==
    {"build_single_layer_variational_autoencoder",
     "build_multiple_layer_variational_autoencoder"}

Builders == VanillaBuilders \cup VariationalBuilders

Tuner == "tune_single_layer_variational_autoencoder"

NoParams == [encoder_units |-> 0, decoder_units |-> 0, activation |-> "", epochs |-> 0]
NoData == [x_train |-> "", y_train |-> "", x_val |-> "", y_val |-> "", rows |-> 0]

\* One statement of a function body.
Instr(op, dst, args, n, act, line) ==
    [op |-> op, dst |-> dst, args |-> args, n |-> n, act |-> act, line |-> line]

\* dst = Input(shape=(w,))
IInput(dst, w, line) == Instr("Input", dst, <<>>, w, "", line)
\* dst = layers.Dense(units, activation=act)(src)
IDense(dst, units, act, src, line) == Instr("Dense", dst, <<src>>, units, act, line)
\* dst = layers.Lambda(sample, output_shape=(w,))([a, b])
ILambda(dst, w, a, b, line) == Instr("Lambda", dst, <<a, b>>, w, "sample", line)
\* dst = tf.keras.Model(in, outs, name=dst)
IModel(dst, in, outs, line) == Instr("Model", dst, <<in>> \o outs, 0, dst, line)
\* dst = outer(inner(src))  (idx = 1)   or   dst = outer(inner(src)[idx - 1])
ICompose(dst, outer, inner, src, idx, line) ==
    Instr("Compose", dst, <<outer, inner, src>>, idx, "", line)
\* m.summary()
ISummary(m, line) == Instr("Summary", "", <<m>>, 0, "", line)
\* m.compile(optimizer=tf.keras.optimizers.Adam(0.001), loss=loss)
ICompile(m, loss, line) == Instr("Compile", "", <<m>>, AdamLrMilli, loss, line)
\* history = m.fit(...)
IFit(dst, m, line) == Instr("Fit", dst, <<m>>, 0, "", line)
\* return names
IReturn(names, line) == Instr("Return", "", names, 0, "", line)

\* ------------------------------------------------------ the function bodies
\* build_simple_autoencoder with the two Dense widths exchanged.
build_simple_autoencoder_swapped(latent_dim, input_shape) ==
    << IInput("inputs", input_shape, 22),
       IDense("z", input_shape, "relu", "inputs", 23),
       IInput("latent_inputs", latent_dim, 24),
       IDense("outputs", latent_dim, "sigmoid", "latent_inputs", 25),
       IModel("encoder", "inputs", <<"z">>, 28),
       IModel("decoder", "latent_inputs", <<"outputs">>, 29),
       ICompose("outputs", "decoder", "encoder", "inputs", 1, 32),
       IModel("autoencoder", "inputs", <<"outputs">>, 33),
       ICompile("autoencoder", "mean_absolute_error", 35),
       IReturn(<<"autoencoder", "encoder", "decoder">>, 38) >>

build_simple_autoencoder(latent_dim, input_shape) ==
    << IInput("inputs", input_shape, 22),
       IDense("z", latent_dim, "relu", "inputs", 23),
       IInput("latent_inputs", latent_dim, 24),
       IDense("outputs", input_shape, "sigmoid", "latent_inputs", 25),
       IModel("encoder", "inputs", <<"z">>, 28),
       IModel("decoder", "latent_inputs", <<"outputs">>, 29),
       ICompose("outputs", "decoder", "encoder", "inputs", 1, 32),
       IModel("autoencoder", "inputs", <<"outputs">>, 33),
       ICompile("autoencoder", "mean_absolute_error", 35),
       IReturn(<<"autoencoder", "encoder", "decoder">>, 38) >>

build_single_layer_autoencoder(latent_dim, input_shape) ==
    << IInput("inputs", input_shape, 57),
       IDense("x", 256, "relu", "inputs", 58),
       IDense("z", latent_dim, "relu", "x", 59),
       IInput("latent_inputs", latent_dim, 60),
       IDense("x", 256, "relu", "latent_inputs", 61),
       IDense("outputs", input_shape, "sigmoid", "latent_inputs", 62),
       IModel("encoder", "inputs", <<"z">>, 65),
       IModel("decoder", "latent_inputs", <<"outputs">>, 66),
       ICompose("outputs", "decoder", "encoder", "inputs", 1, 69),
       IModel("autoencoder", "inputs", <<"outputs">>, 70),
       ICompile("autoencoder", "mean_absolute_error", 72),
       IReturn(<<"autoencoder", "encoder", "decoder">>, 75) >>

build_multiple_layer_autoencoder(latent_dim, input_shape) ==
    << IInput("inputs", input_shape, 91),
       IDense("x", 13, "relu", "inputs", 92),
       IDense("x", 9, "relu", "x", 93),
       IDense("x", 6, "relu", "x", 94),
       IDense("x", 2, "relu", "x", 95),
       IDense("z", latent_dim, "relu", "x", 96),
       IInput("latent_inputs", latent_dim, 97),
       IDense("x", 2, "relu", "latent_inputs", 98),
       IDense("x", 6, "relu", "x", 99),
       IDense("x", 9, "relu", "x", 100),
       IDense("x", 13, "relu", "x", 101),
       IDense("outputs", input_shape, "sigmoid", "x", 102),
       IModel("encoder", "inputs", <<"z">>, 105),
       IModel("decoder", "latent_inputs", <<"outputs">>, 106),
       ICompose("outputs", "decoder", "encoder", "inputs", 1, 109),
       IModel("autoencoder", "inputs", <<"outputs">>, 110),
       ICompile("model", "mean_absolute_error", 112),
       IReturn(<<"autoencoder", "encoder", "decoder">>, 115) >>

build_single_layer_variational_autoencoder(latent_dim, input_shape) ==
    << IInput("inputs", input_shape, 133),
       IDense("x", 1024, "relu", "inputs", 134),
       IDense("mu", latent_dim, "linear", "x", 135),
       IDense("log_sigma", latent_dim, "linear", "x", 136),
       ILambda("z", latent_dim, "mu", "log_sigma", 139),
       IInput("latent_inputs", latent_dim, 142),
       IDense("x", 1024, "relu", "latent_inputs", 143),
       IDense("outputs", input_shape, "sigmoid", "x", 144),
       IModel("encoder", "inputs", <<"mu", "log_sigma", "z">>, 147),
       IModel("decoder", "latent_inputs", <<"outputs">>, 148),
       ISummary("encoder", 149),
       ISummary("decoder", 150),
       ICompose("outputs", "decoder", "encoder", "inputs", 3, 153),
       IModel("autoencoder", "inputs", <<"outputs">>, 154),
       ICompile("autoencoder", "vae_loss", 162),
       ISummary("autoencoder", 163),
       IReturn(<<"autoencoder", "encoder", "decoder">>, 165) >>

build_multiple_layer_variational_autoencoder(latent_dim, input_shape) ==
    << IInput("inputs", input_shape, 183),
       IDense("x", 128, "relu", "inputs", 184),
       IDense("x", 64, "relu", "x", 185),
       IDense("x", 32, "relu", "x", 186),
       IDense("mu", latent_dim, "linear", "x", 187),
       IDense("log_sigma", latent_dim, "linear", "x", 188),
       ILambda("z", latent_dim, "mu", "log_sigma", 191),
       IInput("latent_inputs", latent_dim, 194),
       IDense("x", 32, "relu", "latent_inputs", 195),
       IDense("x", 64, "relu", "x", 196),
       IDense("x", 128, "relu", "x", 197),
       IDense("outputs", input_shape, "sigmoid", "x", 198),
       IModel("encoder", "inputs", <<"mu", "log_sigma", "z">>, 201),
       IModel("decoder", "latent_inputs", <<"outputs">>, 202),
       ISummary("encoder", 203),
       ISummary("decoder", 204),
       ICompose("outputs", "decoder", "encoder", "inputs", 3, 207),
       IModel("autoencoder", "inputs", <<"outputs">>, 208),
       ICompile("autoencoder", "vae_loss", 216),
       ISummary("autoencoder", 217),
       IReturn(<<"autoencoder", "encoder", "decoder">>, 219) >>

tune_single_layer_variational_autoencoder(params) ==
    << IInput("inputs", TuneInputShape, 242),
       IDense("x", params.encoder_units, params.activation, "inputs", 243),
       IDense("mu", TuneLatentDim, "linear", "x", 244),
       IDense("log_sigma", TuneLatentDim, "linear", "x", 245),
       ILambda("z", TuneLatentDim, "mu", "log_sigma", 248),
       IInput("latent_inputs", TuneLatentDim, 251),
       IDense("x", params.decoder_units, params.activation, "latent_inputs", 252),
       IDense("outputs", TuneInputShape, "sigmoid", "x", 253),
       IModel("encoder", "inputs", <<"mu", "log_sigma", "z">>, 256),
       IModel("decoder", "latent_inputs", <<"outputs">>, 257),
       ICompose("outputs", "decoder", "encoder", "inputs", 3, 260),
       IModel("autoencoder", "inputs", <<"outputs">>, 261),
       ICompile("autoencoder", "vae_loss", 270),
       IFit("history", "autoencoder", 272),
       IReturn(<<"history", "autoencoder">>, 279) >>

\* The body of the function named by a call.
Body(c) ==
    CASE c.fn = "build_simple_autoencoder" ->
            build_simple_autoencoder(c.latent_dim, c.input_shape)
      [] c.fn = "build_single_layer_autoencoder" ->
            build_single_layer_autoencoder(c.latent_dim, c.input_shape)
      [] c.fn = "build_multiple_layer_autoencoder" ->
            build_multiple_layer_autoencoder(c.latent_dim, c.input_shape)
      [] c.fn = "build_single_layer_variational_autoencoder" ->
            build_single_layer_variational_autoencoder(c.latent_dim, c.input_shape)
      [] c.fn = "build_multiple_layer_variational_autoencoder" ->
            build_multiple_layer_variational_autoencoder(c.latent_dim, c.input_shape)
      [] c.fn = Tuner ->
            tune_single_layer_variational_autoencoder(c.params)
      [] OTHER -> <<>>

Cur == Body(call)[pc]
AtOp(op) == status = "running" /\ pc \in 1..Len(Body(call)) /\ Cur.op = op

\* The names a statement reads.  Python looks each up when the statement runs.
Reads(i) == {i.args[k] : k \in 1..Len(i.args)}
AllBound(i) == \A nm \in Reads(i) : env[nm] # 0

\* ------------------------------------------------------------ Keras objects
Obj(kind, width, args, n, act) ==
    [kind |-> kind, width |-> width, args |-> args, n |-> n, act |-> act]

\* Shape inference of a + b under broadcasting on the last axis (0: error).
Broadcast(a, b) == IF a = b THEN a ELSE IF a = 1 THEN b ELSE IF b = 1 THEN a ELSE 0

\* The static last-axis width of sample([mu, log_sigma]):
\* dim = K.int_shape(mu)[1]; mu + K.exp(log_sigma * 0.5) * epsilon
SampleWidth(wmu, wls) == Broadcast(wmu, Broadcast(wls, wmu))

\* The inputs and outputs of a Model object.
ModelInput(m) == objs[m].args[1]
ModelOutputs(m) == SubSeq(objs[m].args, 2, Len(objs[m].args))

Alloc(o) ==
    /\ objs' = Append(objs, o)
    /\ weights' = Append(weights, 0)

Bind(dst) == env' = [env EXCEPT ![dst] = Len(objs) + 1]

NoneCompiled == [on |-> 0, optimizer |-> "", lr |-> 0, loss |-> "", beta |-> 0]
NoFit ==
    [phase |-> "", epoch |-> 0, batch |-> 0, shuffles |-> 0, steps |-> 0, evals |-> 0,
     loss |-> <<>>, val_loss |-> <<>>]
NoCall ==
    [fn |-> "", latent_dim |-> 0, input_shape |-> 0, beta |-> 0,
     params |-> NoParams, data |-> NoData]

\* The Dense layers a tensor is computed with.  Calling a model on a tensor
\* reuses the model's own layer objects (all of them, whichever output is taken).
RECURSIVE LayersOf(_)
LayersOf(t) ==
    LET o == objs[t] IN
    CASE o.kind = "Dense" -> {t} \cup LayersOf(o.args[1])
      [] o.kind = "Lambda" -> LayersOf(o.args[1]) \cup LayersOf(o.args[2])
      [] o.kind = "Call" ->
            LET outs == ModelOutputs(o.args[1]) IN
            UNION {LayersOf(outs[k]) : k \in 1..Len(outs)} \cup LayersOf(o.args[2])
      [] OTHER -> {}

\* model.trainable_weights, by owning layer
TrainableLayers(m) ==
    LET outs == ModelOutputs(m) IN UNION {LayersOf(outs[k]) : k \in 1..Len(outs)}

\* The parameter store a model call computes with.  decoder(encoder(inputs))
\* calls the two models' own layer objects, so the composed pipeline reads the
\* same store P the standalone handles read.
CallParamsCopied(P) == [l \in 1..Len(P) |-> 0]
CallParams(P) == P

\* Forward evaluation of tensor t with the model input `inp` fed the value v,
\* under parameter store P.  A value is the term computed so far: the sequence
\* of <<layer, parameter value>> applications (sample draws are left out).
RECURSIVE EvalT(_, _, _, _)
EvalT(t, inp, v, P) ==
    LET o == objs[t] IN
    IF t = inp THEN v
    ELSE CASE o.kind = "Dense" -> Append(EvalT(o.args[1], inp, v, P), <<t, P[t]>>)
           [] o.kind = "Lambda" ->
                 EvalT(o.args[1], inp, v, P) \o EvalT(o.args[2], inp, v, P)
                    \o << <<t, 0>> >>
           [] o.kind = "Call" ->
                 LET m == o.args[1] IN
                 EvalT(ModelOutputs(m)[o.n], ModelInput(m),
                       EvalT(o.args[2], inp, v, P), CallParams(P))
           [] OTHER -> <<>>

\* model(v): the model's first output on input v, with the current parameters.
Forward(m, v) == EvalT(ModelOutputs(m)[1], ModelInput(m), v, weights)

\* ------------------------------------------------------------------ actions
NoLoss ==
    [kind |-> "", beta |-> 0, dim |-> 0, rows |-> <<>>, evals |-> 0, differ |-> FALSE,
     y |-> <<0, 0>>, out |-> <<>>, prev |-> <<>>, recon |-> <<>>, kl |-> <<>>]
NoSample ==
    [mu |-> <<>>, log_sigma |-> <<>>, calls |-> 0, rng |-> 0, before |-> 0,
     epsilon |-> <<>>, index |-> <<>>, out |-> <<>>]

BuilderInit ==
    /\ call = NoCall
    /\ pc = 0
    /\ status = "idle"
    /\ env = [nm \in Names |-> 0]
    /\ objs = <<>>
    /\ weights = <<>>
    /\ stdout = <<>>
    /\ compiled = NoneCompiled
    /\ ret = <<>>
    /\ error = ""
    /\ fit = NoFit
    /\ updates = 0

Init ==
    /\ BuilderInit
    /\ lossState = NoLoss
    /\ sampleState = NoSample

BetaMilliVals == {0, 1}
Activations == {"relu", "tanh"}
TrainRows == {1, BatchSize, BatchSize + 1}

\* The caller invokes one of the module's functions.
CallBuilder ==
    /\ UNCHANGED nvars
    /\ status = "idle"
    /\ \E f \in Builders, ld \in 1..MaxLatent, w \in 1..MaxWidth, b \in BetaMilliVals :
          call' = [NoCall EXCEPT !.fn = f, !.latent_dim = ld, !.input_shape = w,
                                 !.beta = IF f \in VariationalBuilders THEN b ELSE 0]
    /\ pc' = 1
    /\ status' = "running"
    /\ UNCHANGED <<env, objs, weights, stdout, compiled, ret, error, fit, updates>>

CallTuner ==
    /\ UNCHANGED nvars
    /\ status = "idle"
    /\ \E eu \in 1..MaxUnits, du \in 1..MaxUnits, a \in Activations, ep \in 1..MaxEpochs,
          yt \in {"xa", "ya"}, yv \in {"xv", "yv"}, n \in TrainRows :
          call' = [NoCall EXCEPT
                     !.fn = Tuner,
                     !.params = [encoder_units |-> eu, decoder_units |-> du,
                                 activation |-> a, epochs |-> ep],
                     !.data = [x_train |-> "xa", y_train |-> yt,
                               x_val |-> "xv", y_val |-> yv, rows |-> n]]
    /\ pc' = 1
    /\ status' = "running"
    /\ UNCHANGED <<env, objs, weights, stdout, compiled, ret, error, fit, updates>>

\* A statement reads a name no statement has bound.
RaiseNameError ==
    /\ UNCHANGED nvars
    /\ status = "running"
    /\ pc \in 1..Len(Body(call))
    /\ ~AllBound(Cur)
    /\ status' = "raised"
    /\ error' = "NameError"
    /\ UNCHANGED <<call, pc, env, objs, weights, stdout, compiled, ret, fit, updates>>

ExecInput ==
    /\ UNCHANGED nvars
    /\ AtOp("Input")
    /\ Alloc(Obj("Input", Cur.n, <<>>, Cur.n, ""))
    /\ Bind(Cur.dst)
    /\ pc' = pc + 1
    /\ UNCHANGED <<call, status, stdout, compiled, ret, error, fit, updates>>

ExecDense ==
    /\ UNCHANGED nvars
    /\ AtOp("Dense")
    /\ AllBound(Cur)
    /\ Alloc(Obj("Dense", Cur.n, <<env[Cur.args[1]]>>, Cur.n, Cur.act))
    /\ Bind(Cur.dst)
    /\ pc' = pc + 1
    /\ UNCHANGED <<call, status, stdout, compiled, ret, error, fit, updates>>

ExecLambda ==
    /\ UNCHANGED nvars
    /\ AtOp("Lambda")
    /\ AllBound(Cur)
    /\ LET m == env[Cur.args[1]]
           s == env[Cur.args[2]]
       IN Alloc(Obj("Lambda", SampleWidth(objs[m].width, objs[s].width),
                    <<m, s>>, Cur.n, Cur.act))
    /\ Bind(Cur.dst)
    /\ pc' = pc + 1
    /\ UNCHANGED <<call, status, stdout, compiled, ret, error, fit, updates>>

ExecModel ==
    /\ UNCHANGED nvars
    /\ AtOp("Model")
    /\ AllBound(Cur)
    /\ Alloc(Obj("Model", 0, [k \in 1..Len(Cur.args) |-> env[Cur.args[k]]], 0, Cur.act))
    /\ Bind(Cur.dst)
    /\ pc' = pc + 1
    /\ UNCHANGED <<call, status, stdout, compiled, ret, error, fit, updates>>

\* outputs = decoder(encoder(inputs))      or      decoder(encoder(inputs)[2])
\* Each model call checks its argument's width against the model's input.
ExecCompose ==
    /\ UNCHANGED nvars
    /\ AtOp("Compose")
    /\ AllBound(Cur)
    /\ LET outer == env[Cur.args[1]]
           inner == env[Cur.args[2]]
           src == env[Cur.args[3]]
           mid == Obj("Call", objs[ModelOutputs(inner)[Cur.n]].width,
                      <<inner, src>>, Cur.n, "")
           out == Obj("Call", objs[ModelOutputs(outer)[1]].width,
                      <<outer, Len(objs) + 1>>, 1, "")
       IN IF /\ objs[src].width = objs[ModelInput(inner)].width
             /\ mid.width = objs[ModelInput(outer)].width
          THEN /\ objs' = objs \o <<mid, out>>
               /\ weights' = weights \o <<0, 0>>
               /\ env' = [env EXCEPT ![Cur.dst] = Len(objs) + 2]
               /\ pc' = pc + 1
               /\ UNCHANGED <<status, error>>
          ELSE /\ status' = "raised"
               /\ error' = "ValueError"
               /\ UNCHANGED <<objs, weights, env, pc>>
    /\ UNCHANGED <<call, stdout, compiled, ret, fit, updates>>

\* What m.summary() prints: the layer table of model m, as one block headed by
\* the model's name.
SummarySilent(m) == <<>>
Summary(m) == <<objs[m].act>>

\* m.summary() prints the model's layer table to standard output.
ExecSummary ==
    /\ UNCHANGED nvars
    /\ AtOp("Summary")
    /\ AllBound(Cur)
    /\ stdout' = stdout \o Summary(env[Cur.args[1]])
    /\ pc' = pc + 1
    /\ UNCHANGED <<call, status, env, objs, weights, compiled, ret, error, fit, updates>>

ExecCompile ==
    /\ UNCHANGED nvars
    /\ AtOp("Compile")
    /\ AllBound(Cur)
    /\ compiled' = [on |-> env[Cur.args[1]], optimizer |-> "Adam", lr |-> Cur.n,
                    loss |-> Cur.act,
                    beta |-> IF call.fn = Tuner THEN TuneBetaMilli ELSE call.beta]
    /\ pc' = pc + 1
    /\ UNCHANGED <<call, status, env, objs, weights, stdout, ret, error, fit, updates>>

ExecReturn ==
    /\ UNCHANGED nvars
    /\ AtOp("Return")
    /\ AllBound(Cur)
    /\ ret' = [k \in 1..Len(Cur.args) |-> env[Cur.args[k]]]
    /\ status' = "returned"
    /\ UNCHANGED <<call, pc, env, objs, weights, stdout, compiled, error, fit, updates>>

\* ------------------------------------------------ the fit() call, lines 272-277
\* autoencoder.fit(x_train, x_train, shuffle=True, validation_data=(x_val, x_val),
\*                 batch_size=8, epochs=params['epochs'], verbose=False)
FitInputs(d) == d.x_train
FitTargetsFromArgument(d) == d.y_train
FitTargets(d) == d.x_train
FitValidationData(d) == <<d.x_val, d.x_val>>
FitShuffle == TRUE
FitVerbose == FALSE
FitEpochsSinglePass(params) == 1
FitEpochs(params) == params.epochs
FitBatchSize == BatchSize

\* Batches of one pass over `rows` rows: ceil(rows / batch_size).
StepsPerEpoch(rows) == (rows + FitBatchSize - 1) \div FitBatchSize

\* fit() is entered: it blocks the caller until FitReturn.
ExecFit ==
    /\ UNCHANGED nvars
    /\ AtOp("Fit")
    /\ AllBound(Cur)
    /\ IF compiled.on = env[Cur.args[1]]
       THEN /\ status' = "fitting"
            /\ fit' = [NoFit EXCEPT !.phase = "shuffle"]
            /\ error' = error
       ELSE /\ status' = "raised"
            /\ error' = "RuntimeError"
            /\ fit' = fit
    /\ UNCHANGED <<call, pc, env, objs, weights, stdout, compiled, ret, updates>>

\* A pass begins: the training rows are reshuffled when shuffle=True.
FitShuffleRows ==
    /\ UNCHANGED nvars
    /\ status = "fitting"
    /\ fit.phase = "shuffle"
    /\ fit.epoch < FitEpochs(call.params)
    /\ fit' = [fit EXCEPT !.phase = "batches", !.batch = 0,
                          !.shuffles = IF FitShuffle THEN @ + 1 ELSE @]
    /\ UNCHANGED <<call, pc, status, env, objs, weights, stdout, compiled, ret, error,
                   updates>>

\* One optimizer step on one batch: every trainable parameter of the compiled
\* model is updated in place.
FitBatch ==
    /\ UNCHANGED nvars
    /\ status = "fitting"
    /\ fit.phase = "batches"
    /\ fit.batch < StepsPerEpoch(call.data.rows)
    /\ weights' = [l \in 1..Len(weights) |->
                      IF l \in TrainableLayers(compiled.on)
                      THEN weights[l] + 1 ELSE weights[l]]
    /\ fit' = [fit EXCEPT !.batch = @ + 1, !.steps = @ + 1]
    /\ UNCHANGED <<call, pc, status, env, objs, stdout, compiled, ret, error, updates>>

\* After the last batch of a pass the validation split is evaluated.
FitValidate ==
    /\ UNCHANGED nvars
    /\ status = "fitting"
    /\ fit.phase = "batches"
    /\ fit.batch = StepsPerEpoch(call.data.rows)
    /\ fit' = [fit EXCEPT !.phase = "record", !.evals = @ + 1]
    /\ UNCHANGED <<call, pc, status, env, objs, weights, stdout, compiled, ret, error,
                   updates>>

\* The History callback records the pass: one loss and one val_loss entry.
FitRecord ==
    /\ UNCHANGED nvars
    /\ status = "fitting"
    /\ fit.phase = "record"
    /\ fit' = [fit EXCEPT
                 !.phase = "shuffle",
                 !.epoch = @ + 1,
                 !.loss = Append(@, [epoch |-> fit.epoch + 1,
                                     x |-> FitInputs(call.data),
                                     y |-> FitTargets(call.data),
                                     steps |-> fit.batch]),
                 !.val_loss = Append(@, [epoch |-> fit.epoch + 1,
                                         x |-> FitValidationData(call.data)[1],
                                         y |-> FitValidationData(call.data)[2],
                                         steps |-> fit.evals])]
    /\ stdout' = IF FitVerbose THEN Append(stdout, "epoch") ELSE stdout
    /\ UNCHANGED <<call, pc, status, env, objs, weights, compiled, ret, error, updates>>

\* All passes done: fit() returns the History object to the caller's frame.
FitReturn ==
    /\ UNCHANGED nvars
    /\ status = "fitting"
    /\ fit.phase = "shuffle"
    /\ fit.epoch >= FitEpochs(call.params)
    /\ Alloc(Obj("History", 0, <<>>, fit.epoch, ""))
    /\ Bind(Cur.dst)
    /\ fit' = [fit EXCEPT !.phase = "done"]
    /\ status' = "running"
    /\ pc' = pc + 1
    /\ UNCHANGED <<call, stdout, compiled, ret, error, updates>>

\* ------------------------------------------------- the caller, after a builder
\* The caller trains through the returned autoencoder: one parameter of one of
\* its layers is updated in place.
TrainStep ==
    /\ UNCHANGED nvars
    /\ status = "returned"
    /\ call.fn \in Builders
    /\ compiled.on = ret[1]
    /\ updates < MaxUpdates
    /\ \E l \in TrainableLayers(ret[1]) :
          weights' = [weights EXCEPT ![l] = @ + 1]
    /\ updates' = updates + 1
    /\ UNCHANGED <<call, pc, status, env, objs, stdout, compiled, ret, error, fit>>

Next ==
    \/ CallBuilder
    \/ CallTuner
    \/ RaiseNameError
    \/ ExecInput
    \/ ExecDense
    \/ ExecLambda
    \/ ExecModel
    \/ ExecCompose
    \/ ExecSummary
    \/ ExecCompile
    \/ ExecReturn
    \/ ExecFit
    \/ FitShuffleRows
    \/ FitBatch
    \/ FitValidate
    \/ FitRecord
    \/ FitReturn
    \/ TrainStep

Spec == Init /\ [][Next]_vars

\* ------------------------------------------- backend arithmetic (K, float32)
\* The backend computes in a finite floating-point format: results are rounded
\* to the format's precision, magnitudes past its largest finite value become
\* infinite, and 0 * inf and inf - inf are NaN.  The format is modelled as a
\* fixed-point one: a value is an integer count of 1/Q, round-half-even, with
\* magnitudes above MaxFinite infinite.
Q == 8
MaxFinite == 1024
PosInf == MaxFinite + 1
NegInf == 0 - PosInf
NaN == MaxFinite + 2
One == Q
Half == Q \div 2

IsNaN(a) == a = NaN
IsInf(a) == a = PosInf \/ a = NegInf
IsFinite(a) == ~IsNaN(a) /\ ~IsInf(a)

\* n / d rounded to the nearest integer, ties to even (d > 0).
RoundDiv(n, d) ==
    LET q == n \div d
        r == n % d
    IN IF 2 * r < d THEN q
       ELSE IF 2 * r > d THEN q + 1
       ELSE IF q % 2 = 0 THEN q ELSE q + 1

Norm(n) == IF n > MaxFinite THEN PosInf ELSE IF n < 0 - MaxFinite THEN NegInf ELSE n

FNeg(a) == IF IsNaN(a) THEN NaN ELSE 0 - a
FAbs(a) == IF IsNaN(a) THEN NaN ELSE IF a < 0 THEN 0 - a ELSE a

FAdd(a, b) ==
    IF IsNaN(a) \/ IsNaN(b) THEN NaN
    ELSE IF IsInf(a) /\ IsInf(b) THEN (IF a = b THEN a ELSE NaN)
    ELSE IF IsInf(a) THEN a
    ELSE IF IsInf(b) THEN b
    ELSE Norm(a + b)

FSub(a, b) == FAdd(a, FNeg(b))

FMul(a, b) ==
    IF IsNaN(a) \/ IsNaN(b) THEN NaN
    ELSE IF IsInf(a) \/ IsInf(b)
         THEN IF a = 0 \/ b = 0 THEN NaN
              ELSE IF (a > 0) = (b > 0) THEN PosInf ELSE NegInf
    ELSE Norm(RoundDiv(a * b, Q))

\* c * a for a Python constant c = num / den >= 0 (beta, given in thousandths).
FScale(num, den, a) ==
    IF IsNaN(a) THEN NaN
    ELSE IF IsInf(a) THEN (IF num = 0 THEN NaN ELSE a)
    ELSE Norm(RoundDiv(num * a, den))

\* a / n for a count n > 0.
FDivCount(a, n) == IF IsFinite(a) THEN RoundDiv(a, n) ELSE a

\* K.exp, tabulated: ExpTable[a - ExpMinArg + 1] is exp(a / Q) * Q rounded, for
\* ExpMinArg <= a <= ExpMaxArg; below the table exp rounds to 0, above it the
\* result exceeds MaxFinite.
ExpMinArg == 0 - 22
ExpMaxArg == 38
ExpTable ==
    << 1, 1, 1, 1, 1, 1, 1, 1, 1, 2, 2, 2, 2, 3, 3, 3, 4, 4, 5, 5, 6, 7,
       8, 9, 10, 12, 13, 15, 17, 19, 22, 25, 28, 32, 36, 41, 46, 52, 59, 67, 76,
       86, 97, 110, 125, 142, 161, 182, 206, 234, 265, 300, 340, 385, 437, 495,
       561, 636, 720, 816, 925 >>

FExp(a) ==
    IF IsNaN(a) THEN NaN
    ELSE IF a = PosInf \/ a > ExpMaxArg THEN PosInf
    ELSE IF a = NegInf \/ a < ExpMinArg THEN 0
    ELSE ExpTable[a - ExpMinArg + 1]

\* K.sum / K.mean over a vector, accumulated left to right.
RECURSIVE FSum(_)
FSum(v) == IF Len(v) = 0 THEN 0 ELSE FAdd(FSum(SubSeq(v, 1, Len(v) - 1)), v[Len(v)])
FMean(v) == FDivCount(FSum(v), Len(v))

\* losses.mean_absolute_error(y_true, y_pred) of one row: mean(|y_pred - y_true|).
mean_absolute_error(y_true, y_pred) ==
    FMean([i \in 1..Len(y_true) |-> FAbs(FSub(y_pred[i], y_true[i]))])

\* ------------------------------------------------------------- the vae_loss
\* One latent dimension of  K.exp(log_sigma) + K.square(mu) - 1. - log_sigma
KLElementNoMinusOne(m, s) == FSub(FAdd(FExp(s), FMul(m, m)), s)
KLElement(m, s) == FSub(FSub(FAdd(FExp(s), FMul(m, m)), One), s)

\* K.sum(..., axis=1) of one row
KLSum(row) ==
    FSum([d \in 1..Len(row.mu) |-> KLElement(row.mu[d], row.log_sigma[d])])

\* The closure of vae_loss: the batch values of the tensors `inputs`, `outputs`,
\* `mu` and `log_sigma` of the enclosing build (rows), and beta in thousandths.
\* (y_true, y_pred) are the formal arguments the training loop passes.
\*
\* The builders' vae_loss, lines 157-160 and 211-214: a per-row loss vector.
vae_loss_of_arguments(y_true, y_pred, rows, beta) ==
    LET recon == [r \in 1..Len(rows) |-> mean_absolute_error(<<y_true>>, <<y_pred>>)]
        kl == [r \in 1..Len(rows) |-> FMul(Half, KLSum(rows[r]))]
    IN [recon |-> recon, kl |-> kl,
        loss |-> [r \in 1..Len(rows) |-> FAdd(recon[r], FScale(beta, 1000, kl[r]))]]

vae_loss(y_true, y_pred, rows, beta) ==
    LET reconstruciton_loss ==
            [r \in 1..Len(rows) |-> mean_absolute_error(rows[r].inputs, rows[r].outputs)]
        kl_loss == [r \in 1..Len(rows) |-> FMul(Half, KLSum(rows[r]))]
    IN [recon |-> reconstruciton_loss, kl |-> kl_loss,
        loss |-> [r \in 1..Len(rows) |->
                    FAdd(reconstruciton_loss[r], FScale(beta, 1000, kl_loss[r]))]]

\* The tuner's vae_loss, lines 264-268: beta * 0.5 is folded into one constant
\* before it meets the tensor, and the batch is reduced to its mean.
tune_vae_loss(y_true, y_pred, rows, beta) ==
    LET recon ==
            [r \in 1..Len(rows) |-> mean_absolute_error(rows[r].inputs, rows[r].outputs)]
        kl_loss == [r \in 1..Len(rows) |-> FScale(beta, 2000, KLSum(rows[r]))]
    IN [recon |-> recon, kl |-> kl_loss,
        loss |-> << FMean([r \in 1..Len(rows) |-> FAdd(recon[r], kl_loss[r])]) >>]

\* -------------------------------------------- evaluating the loss on a batch
MaxDim == 2
MaxRows == 2

\* (mean, log_variance) of one latent dimension: zero, a mean whose square
\* rounds to zero, a log-variance whose KL element rounds to zero, values of
\* magnitude one, and a log-variance whose exponential overflows.
DimVals ==
    { <<0, 0>>, <<1, 0>>, <<0, 1>>, <<One, 0>>, <<0, One>>, <<0, 0 - One>>,
      <<0, ExpMaxArg + 1>> }

Uniform(D, p) == [d \in 1..D |-> p]
OneHot(D, k, p) == [d \in 1..D |-> IF d = k THEN p ELSE <<0, 0>>]

\* The latent rows drawn: the same pair in every dimension, or only the last
\* dimension differing from zero.
LatentRows(D) ==
    {Uniform(D, p) : p \in DimVals} \cup {OneHot(D, D, p) : p \in DimVals}

Row(io, lat) ==
    [inputs |-> io[1], outputs |-> io[2],
     mu |-> [d \in 1..Len(lat) |-> lat[d][1]],
     log_sigma |-> [d \in 1..Len(lat) |-> lat[d][2]]]

\* The rows a batch is made of.
RowPool(D) ==
    {Row(<< <<0, One>>, <<2, 6>> >>, lat) : lat \in LatentRows(D)}
        \cup {Row(<< <<One, One>>, <<2, 6>> >>, Uniform(D, <<0, 0>>))}

LossBetas == {0, 500}
YVals == { <<0, 0>>, <<0, One>> }

LossInit ==
    /\ BuilderInit
    /\ sampleState = NoSample
    /\ \E k \in {"builder", "tuner"}, b \in LossBetas, D \in 1..MaxDim :
          lossState = [NoLoss EXCEPT
                         !.kind = k,
                         !.beta = IF k = "tuner" THEN TuneBetaMilli ELSE b,
                         !.dim = D]

\* The training loop feeds one more row of the batch through the model.
LossFeedRow ==
    /\ Len(lossState.rows) < MaxRows
    /\ \E row \in RowPool(lossState.dim) :
          lossState' = [lossState EXCEPT
                          !.rows = Append(@, row), !.evals = 0, !.differ = FALSE,
                          !.out = <<>>, !.prev = <<>>, !.recon = <<>>, !.kl = <<>>]
    /\ UNCHANGED <<bvars, sampleState>>

\* The training loop calls the compiled loss as loss(y_true, y_pred).
LossEval ==
    /\ Len(lossState.rows) >= 1
    /\ lossState.evals < 2
    /\ \E y \in YVals :
          LET res == IF lossState.kind = "tuner"
                     THEN tune_vae_loss(y[1], y[2], lossState.rows, lossState.beta)
                     ELSE vae_loss(y[1], y[2], lossState.rows, lossState.beta)
          IN lossState' = [lossState EXCEPT
                             !.evals = @ + 1,
                             !.differ = (lossState.evals >= 1 /\ y # lossState.y),
                             !.y = y,
                             !.prev = lossState.out,
                             !.out = res.loss, !.recon = res.recon, !.kl = res.kl]
    /\ UNCHANGED <<bvars, sampleState>>

LossNext == LossFeedRow \/ LossEval

LossSpec == LossInit /\ [][LossNext]_vars

\* ------------------------------------------------------ the sampler, 221-228
MaxBatch == 2
MaxCalls == 2

\* K.random_normal(shape=(batch, dim), mean=0., stddev=1.0): batch * dim values
\* are taken from the random source, which stands at position pos; `stream`
\* holds the values the source yields next.
random_normal(batch, dim, pos, stream) ==
    [val |-> [r \in 1..batch |-> [d \in 1..dim |-> stream[(r - 1) * dim + d]]],
     index |-> [r \in 1..batch |-> [d \in 1..dim |-> pos + (r - 1) * dim + d]],
     pos |-> pos + batch * dim]

\* sample with one noise row drawn and broadcast over the batch.
sample_row_noise(mu, log_sigma, pos, stream) ==
    LET batch == Len(mu)
        dim == Len(mu[1])
        epsilon == random_normal(1, dim, pos, stream)
    IN [out |-> [r \in 1..batch |-> [d \in 1..dim |->
                    FAdd(mu[r][d],
                         FMul(FExp(FMul(log_sigma[r][d], Half)), epsilon.val[1][d]))]],
        epsilon |-> [r \in 1..batch |-> epsilon.val[1]],
        index |-> [r \in 1..batch |-> epsilon.index[1]],
        rng |-> epsilon.pos]

\* sample([mu, log_sigma]): batch = K.shape(mu)[0], dim = K.int_shape(mu)[1],
\* mu + K.exp(log_sigma * 0.5) * epsilon
sample(mu, log_sigma, pos, stream) ==
    LET batch == Len(mu)
        dim == Len(mu[1])
        epsilon == random_normal(batch, dim, pos, stream)
    IN [out |-> [r \in 1..batch |-> [d \in 1..dim |->
                    FAdd(mu[r][d],
                         FMul(FExp(FMul(log_sigma[r][d], Half)), epsilon.val[r][d]))]],
        epsilon |-> epsilon.val,
        index |-> epsilon.index,
        rng |-> epsilon.pos]

Const(B, D, v) == [r \in 1..B |-> [d \in 1..D |-> v]]
Ramp(B, D, k) == [r \in 1..B |-> [d \in 1..D |-> k * ((r - 1) * D + d)]]
MuBatches(B, D) == {Const(B, D, 0), Const(B, D, One), Ramp(B, D, 1)}
LogSigmaBatches(B, D) == {Const(B, D, 0), Const(B, D, 2 * One), Ramp(B, D, 2)}
\* The next n values of the random source: a few of the sequences it can yield.
Streams(n) ==
    { [i \in 1..n |-> One],
      [i \in 1..n |-> 0 - One],
      [i \in 1..n |-> IF i % 3 = 0 THEN 0 - One ELSE One],
      [i \in 1..n |-> IF i % 2 = 0 THEN 0 ELSE 3 * One] }

SampleInit ==
    /\ BuilderInit
    /\ lossState = NoLoss
    /\ \E B \in 1..MaxBatch, D \in 1..MaxDim :
          sampleState = [NoSample EXCEPT !.mu = Const(B, D, 0),
                                         !.log_sigma = Const(B, D, 0)]

\* One forward pass through the Lambda layer: the encoder heads produce the
\* batch's mu and log_sigma, the sampler is invoked on them and reads the
\* random source.
Sample ==
    /\ sampleState.calls < MaxCalls
    /\ LET B == Len(sampleState.mu)
           D == Len(sampleState.mu[1])
       IN \E m \in MuBatches(B, D), s \in LogSigmaBatches(B, D),
             stream \in Streams(B * D) :
             LET res == sample(m, s, sampleState.rng, stream)
             IN sampleState' = [sampleState EXCEPT
                                  !.mu = m,
                                  !.log_sigma = s,
                                  !.calls = @ + 1,
                                  !.before = sampleState.rng,
                                  !.rng = res.rng,
                                  !.epsilon = res.epsilon,
                                  !.index = res.index,
                                  !.out = res.out]
    /\ UNCHANGED <<bvars, lossState>>

\* The caller discards the sample; the random source keeps its position.
SampleDiscard ==
    /\ sampleState.calls >= 1
    /\ sampleState.out # <<>>
    /\ sampleState' = [sampleState EXCEPT !.out = <<>>]
    /\ UNCHANGED <<bvars, lossState>>

SampleNext == Sample \/ SampleDiscard

SampleSpec == SampleInit /\ [][SampleNext]_vars

\* ------------------------------------------------------- reading the graph
Reverse(s) == [i \in 1..Len(s) |-> s[Len(s) + 1 - i]]
Front(s) == SubSeq(s, 1, Len(s) - 1)
Range(s) == {s[i] : i \in 1..Len(s)}

\* The Dense layers on the way from an input tensor to tensor t, in order.
RECURSIVE DensePath(_)
DensePath(t) ==
    IF objs[t].kind = "Dense" THEN Append(DensePath(objs[t].args[1]), t) ELSE <<>>

\* The tensor a chain of Dense layers starts from.
RECURSIVE Root(_)
Root(t) == IF objs[t].kind = "Dense" THEN Root(objs[t].args[1]) ELSE t

Widths(path) == [i \in 1..Len(path) |-> objs[path[i]].n]
Acts(path) == {objs[path[i]].act : i \in 1..Len(path)}

\* The configuration a call builds for.
LatentDim == IF call.fn = Tuner THEN TuneLatentDim ELSE call.latent_dim
InputWidth == IF call.fn = Tuner THEN TuneInputShape ELSE call.input_shape
IsVariational == call.fn \in VariationalBuilders \cup {Tuner}
Built(nm) == env[nm] # 0 /\ objs[env[nm]].kind = "Model"

\* ------------------------------------------------------------------ claims

\* C1: every build_<variant>_autoencoder call runs to completion and returns
\* (autoencoder, encoder, decoder), having invoked compile (Adam, learning
\* rate 0.001) on the autoencoder it just built and on nothing else.
C1_BuildersCompleteAndCompileOwnArtifact ==
    call.fn \in Builders =>
        /\ status # "raised"
        /\ compiled.on # 0 =>
              /\ compiled.on = env["autoencoder"]
              /\ compiled.optimizer = "Adam"
              /\ compiled.lr = AdamLrMilli
        /\ status = "returned" =>
              /\ ret = <<env["autoencoder"], env["encoder"], env["decoder"]>>
              /\ compiled.on = ret[1]

\* C2: in every variant the encoder maps width input_width to width latent_dim
\* (variational: each of mean, log_variance and z), the decoder maps width
\* latent_dim to width input_width, and the autoencoder maps input_width to
\* input_width; no model call is refused for a width mismatch.
C2_ShapesMatchConfiguration ==
    /\ error # "ValueError"
    /\ Built("encoder") =>
          LET outs == ModelOutputs(env["encoder"]) IN
          /\ objs[ModelInput(env["encoder"])].width = InputWidth
          /\ Len(outs) = IF IsVariational THEN 3 ELSE 1
          /\ \A k \in 1..Len(outs) : objs[outs[k]].width = LatentDim
    /\ Built("decoder") =>
          LET outs == ModelOutputs(env["decoder"]) IN
          /\ objs[ModelInput(env["decoder"])].width = LatentDim
          /\ Len(outs) = 1
          /\ objs[outs[1]].width = InputWidth
    /\ Built("autoencoder") =>
          LET outs == ModelOutputs(env["autoencoder"]) IN
          /\ objs[ModelInput(env["autoencoder"])].width = InputWidth
          /\ Len(outs) = 1
          /\ objs[outs[1]].width = InputWidth

\* C2 witness: a variational builder has returned its triple for a latent
\* width different from the input width.
C2_Witness ==
    /\ status = "returned"
    /\ call.fn \in VariationalBuilders
    /\ call.latent_dim # call.input_shape
    /\ Built("encoder") /\ Built("decoder") /\ Built("autoencoder")

\* The decoder hidden widths the claim lists, per builder.
ExpectedDecoderHidden ==
    CASE call.fn = "build_simple_autoencoder" -> <<>>
      [] call.fn = "build_single_layer_autoencoder" -> <<256>>
      [] call.fn = "build_multiple_layer_autoencoder" -> <<2, 6, 9, 13>>
      [] call.fn = "build_single_layer_variational_autoencoder" -> <<1024>>
      [] call.fn = "build_multiple_layer_variational_autoencoder" -> <<32, 64, 128>>
      [] OTHER -> <<>>

\* C3: in every builder the hidden Dense widths from the decoder's latent input
\* to its output are the reverse of the encoder's hidden widths, every hidden
\* layer is rectified-linear, the path ends in one sigmoid Dense of width
\* input_width, and no Dense layer built on the latent input is off that path.
C3_DecoderMirrorsEncoder ==
    (call.fn \in Builders /\ Built("encoder") /\ Built("decoder")) =>
        LET enc == DensePath(ModelOutputs(env["encoder"])[1])
            dec == DensePath(ModelOutputs(env["decoder"])[1])
            latent_inputs == ModelInput(env["decoder"])
        IN /\ Len(enc) >= 1 /\ Len(dec) >= 1
           /\ Widths(Front(dec)) = Reverse(Widths(Front(enc)))
           /\ Widths(Front(dec)) = ExpectedDecoderHidden
           /\ Acts(Front(enc)) \subseteq {"relu"}
           /\ Acts(Front(dec)) \subseteq {"relu"}
           /\ objs[dec[Len(dec)]].act = "sigmoid"
           /\ objs[dec[Len(dec)]].n = InputWidth
           /\ \A t \in 1..Len(objs) :
                 (objs[t].kind = "Dense" /\ Root(t) = latent_inputs) => t \in Range(dec)

\* The input values the forward passes are compared on.
Xs == { << <<0, 1>> >>, << <<0, 2>> >> }

\* C4: for a vanilla builder's triple, after any parameter updates made by
\* training through the autoencoder, autoencoder(x) = decoder(encoder(x)) for
\* every input x: the pipeline reads the standalone handles' own parameters.
C4_PipelineSharesParameters ==
    (status = "returned" /\ call.fn \in VanillaBuilders) =>
        \A x \in Xs : Forward(ret[1], x) = Forward(ret[3], Forward(ret[2], x))

\* C4 witness: a vanilla triple whose encoder and decoder parameters have both
\* been updated by training.
C4_Witness ==
    /\ status = "returned"
    /\ call.fn \in VanillaBuilders
    /\ \E le \in TrainableLayers(ret[2]), ld \in TrainableLayers(ret[3]) :
          weights[le] > 0 /\ weights[ld] > 0

\* C5 as stated: no builder writes anything to standard output.
C5_BuildersWriteNothing ==
    call.fn \in Builders => stdout = <<>>

\* C5 as amended: a vanilla builder writes nothing to standard output; a
\* variational builder writes exactly the three model summaries, encoder then
\* decoder then autoencoder, and nothing else.
C5_OnlyVariationalSummaries ==
    LET summaries == <<"encoder", "decoder", "autoencoder">> IN
    /\ call.fn \in VanillaBuilders => stdout = <<>>
    /\ call.fn \in VariationalBuilders =>
          /\ Len(stdout) <= 3
          /\ stdout = SubSeq(summaries, 1, Len(stdout))
          /\ status = "returned" => stdout = summaries

\* C5 witness: a variational builder has returned after printing.
C5_Witness ==
    /\ status = "returned"
    /\ call.fn \in VariationalBuilders
    /\ Len(stdout) = 3

\* ceil(rows / 8), written out.
ExpectedSteps(rows) == IF rows % 8 = 0 THEN rows \div 8 ELSE rows \div 8 + 1

\* C6: the tuner called with epochs = n blocks until n passes are done: n
\* shuffles, batches of 8, one validation evaluation after each pass, and only
\* then returns (history, autoencoder) with n loss and n val_loss entries in
\* pass order.
C6_FitRunsConfiguredPasses ==
    call.fn = Tuner =>
        LET n == call.params.epochs IN
        /\ status = "fitting" => ret = <<>>
        /\ fit.evals <= fit.shuffles /\ fit.shuffles <= n
        /\ status = "returned" =>
              /\ ret = <<env["history"], env["autoencoder"]>>
              /\ fit.phase = "done"
              /\ fit.epoch = n /\ fit.shuffles = n /\ fit.evals = n
              /\ fit.steps = n * ExpectedSteps(call.data.rows)
              /\ Len(fit.loss) = n /\ Len(fit.val_loss) = n
              /\ \A k \in 1..n :
                    /\ fit.loss[k].epoch = k
                    /\ fit.loss[k].steps = ExpectedSteps(call.data.rows)
                    /\ fit.val_loss[k].epoch = k
                    /\ fit.val_loss[k].steps = k

\* C6 witness: a two-pass run over nine rows (two batches a pass) has returned.
C6_Witness ==
    /\ call.fn = Tuner
    /\ status = "returned"
    /\ call.params.epochs = 2
    /\ call.data.rows = 9

\* C10: the tuner never reads y_train or y_val: every pass trains on
\* (x_train, x_train) and validates on (x_val, x_val), so the history is the
\* one the inputs and the config determine, whatever the targets are.
C10_TargetsNeverRead ==
    call.fn = Tuner =>
        /\ \A k \in 1..Len(fit.loss) :
              fit.loss[k] = [epoch |-> k, x |-> call.data.x_train,
                             y |-> call.data.x_train,
                             steps |-> ExpectedSteps(call.data.rows)]
        /\ \A k \in 1..Len(fit.val_loss) :
              fit.val_loss[k] = [epoch |-> k, x |-> call.data.x_val,
                                 y |-> call.data.x_val, steps |-> k]

\* C10 witness: a run has returned whose targets differ from its inputs.
C10_Witness ==
    /\ call.fn = Tuner
    /\ status = "returned"
    /\ call.data.y_train # call.data.x_train
    /\ call.data.y_val # call.data.x_val
    /\ Len(fit.loss) >= 1
AllZero(row) == \A d \in 1..Len(row.mu) : row.mu[d] = 0 /\ row.log_sigma[d] = 0
SomeUnit(row) ==
    \E d \in 1..Len(row.mu) : FAbs(row.mu[d]) >= One \/ FAbs(row.log_sigma[d]) >= One
LossRows == 1..Len(lossState.rows)
BuilderLossEvaluated == lossState.kind = "builder" /\ lossState.evals >= 1

\* C7 as stated: with beta = 0 the builders' loss equals the reconstruction
\* loss for all inputs and all mean / log_variance values, and the KL term
\* 0.5 * sum(exp(log_variance) + mean^2 - 1 - log_variance) is zero exactly
\* when mean = 0 and log_variance = 0 in every latent dimension.
C7_BetaZeroAndKLZeroExactly ==
    BuilderLossEvaluated =>
        \A r \in LossRows :
            /\ lossState.beta = 0 => lossState.out[r] = lossState.recon[r]
            /\ lossState.kl[r] = 0 <=> AllZero(lossState.rows[r])

\* C7 as amended: with beta = 0 the loss equals the reconstruction loss
\* whenever the KL term is finite (it is NaN when the KL term overflows); the
\* KL term is zero when mean = 0 and log_variance = 0 in every dimension, and
\* non-zero when some mean or log_variance has magnitude at least one.
C7_BetaZeroFiniteAndKLZero ==
    BuilderLossEvaluated =>
        \A r \in LossRows :
            /\ (lossState.beta = 0 /\ IsFinite(lossState.kl[r])) =>
                  lossState.out[r] = lossState.recon[r]
            /\ (lossState.beta = 0 /\ ~IsFinite(lossState.kl[r])) =>
                  IsNaN(lossState.out[r])
            /\ AllZero(lossState.rows[r]) => lossState.kl[r] = 0
            /\ SomeUnit(lossState.rows[r]) => lossState.kl[r] # 0

\* C7 witness: a beta = 0 evaluation of a batch holding an all-zero row and a
\* row whose KL term is finite and positive.
C7_Witness ==
    /\ BuilderLossEvaluated
    /\ lossState.beta = 0
    /\ \E r \in LossRows : AllZero(lossState.rows[r]) /\ lossState.kl[r] = 0
    /\ \E r \in LossRows :
          /\ SomeUnit(lossState.rows[r])
          /\ IsFinite(lossState.kl[r]) /\ lossState.kl[r] > 0
          /\ lossState.out[r] = lossState.recon[r]

\* C8: every sampler invocation on mean / log_variance of shape (B, D) draws a
\* fresh standard-normal value for each (row, dimension) pair, B and D being
\* those of mean, and returns mean + exp(0.5 * log_variance) * epsilon
\* elementwise with shape (B, D).
C8_SamplerDrawsFreshPerElement ==
    (sampleState.calls >= 1 /\ sampleState.out # <<>>) =>
        LET B == Len(sampleState.mu)
            D == Len(sampleState.mu[1])
            idx == sampleState.index
            eps == sampleState.epsilon
        IN /\ Len(sampleState.out) = B
           /\ \A r \in 1..B :
                 /\ Len(sampleState.out[r]) = D
                 /\ \A d \in 1..D :
                       sampleState.out[r][d] =
                          FAdd(sampleState.mu[r][d],
                               FMul(FExp(FMul(Half, sampleState.log_sigma[r][d])),
                                    eps[r][d]))
           /\ sampleState.rng = sampleState.before + B * D
           /\ \A r \in 1..B, d \in 1..D :
                 /\ idx[r][d] > sampleState.before
                 /\ idx[r][d] <= sampleState.rng
                 /\ \A r2 \in 1..B, d2 \in 1..D :
                       idx[r][d] = idx[r2][d2] => (r = r2 /\ d = d2)

\* C8 witness: the second invocation on a 2 x 2 batch, with draws that differ
\* between the rows.
C8_Witness ==
    /\ sampleState.calls = 2
    /\ sampleState.out # <<>>
    /\ sampleState.log_sigma # Const(2, 2, 0)
    /\ Len(sampleState.mu) = 2
    /\ Len(sampleState.mu[1]) = 2
    /\ sampleState.before = 4
    /\ sampleState.epsilon[1] # sampleState.epsilon[2]

\* C9: the compiled loss is determined by the closed-over tensors and beta
\* alone: two evaluations on the same batch return the same loss whatever
\* (y_true, y_pred) they are passed.
C9_LossIgnoresArguments ==
    lossState.evals = 2 => lossState.prev = lossState.out

\* C9 witness: the builders' loss evaluated twice on one batch, with different
\* arguments.
C9_Witness ==
    /\ lossState.evals = 2
    /\ lossState.differ
    /\ lossState.kind = "builder"
    /\ lossState.out # <<>>
====
